---- MODULE Spec2Model ----
(***************************************************************************)
(* Model of FlightRadarController (src/services/FlightRadarController.ts): *)
(* the polling state machine, its session token, its retry timers and its  *)
(* in-flight requests.                                                     *)
(*                                                                         *)
(* One action is one JavaScript task: a public call (start, stop,          *)
(* setConfig), a timer callback, the settlement of a fetch promise, or a   *)
(* change of navigator.onLine.  Each action runs the whole synchronous     *)
(* part of the handler, scanLoop up to its await included.                 *)
(*                                                                         *)
(* Spec is the controller with a consumer whose callbacks return and with  *)
(* requests that resolve with a list of records or reject.  SpecEnv adds   *)
(* the HTTP response a request completes with and an onUpdate callback     *)
(* that may throw, SpecRange reconfigures around the long-range threshold, *)
(* SpecPage adds the error a failed request is rejected with, SpecFailover *)
(* leaves failover to itself after start(), and SpecNormalizer and         *)
(* SpecProjection are processTargets on its own.  SpecWide and SpecWrapper *)
(* cover src/services/flightService.ts: the range its adapters and the     *)
(* controller ask for, and its fetch wrapper fetchJson.  SpecApp is the    *)
(* controller called as the application's configuration effect calls it,   *)
(* SpecRepeat is the controller with calls of setConfig that are repeated, *)
(* and SpecCallbacks is the controller whose callbacks are registered late *)
(* or not at all; everywhere else both are registered from the start.      *)
(***************************************************************************)
EXTENDS Integers, Sequences, FiniteSets, Bags, TLC

(***************************************************************************)
(* Bounds of the model.                                                    *)
(***************************************************************************)
\* setConfig stops changing position/range once the token has reached this
MaxSession == 1
\* a public call is not taken when it would leave more than this many
\* timeouts and requests outstanding
MaxPending == 2
\* longest list of intermediate records handed to processTargets
MaxRecords == 2

(***************************************************************************)
(* Program constants.                                                      *)
(***************************************************************************)
MAX_FAILURES_PER_PROVIDER == 2
PROVIDER_ORDER == <<"ADSB_LOL", "AIRPLANES_LIVE", "OPENSKY">>
OfflineRetryMs == 5000
FailoverRetryMs == 1000
SameProviderRetryMs == 3000
LongRangePollMs == 15000
StandardPollMs == 6000
LongRangeKm == 300

(***************************************************************************)
(* Inputs the consumer and the environment may supply.                     *)
(***************************************************************************)
\* provider arguments of setConfig; "UNLISTED" is a value not in the sequence
ProviderArgs == {"ADSB_LOL", "AIRPLANES_LIVE", "OPENSKY", "UNLISTED"}
\* (lat, lon, rangeKm) arguments of setConfig: the constructor's values and
\* another position with a range above LongRangeKm
ConfigArgs == {<<0, 0, 50>>, <<51, 2, 400>>}
\* (lat, lon, rangeKm) arguments of setConfig around the long-range threshold
RangeArgs == {<<0, 0, 50>>, <<0, 0, 300>>, <<0, 0, 400>>}
\* field value of a JSON body that lacks the field
Absent == -1
\* HTTP responses: ok is response.ok, json whether the body parses as JSON,
\* ac and states the length of the list in that field of the body, or Absent
Responses ==
    {[ok |-> FALSE, json |-> TRUE, ac |-> Absent, states |-> Absent],
     [ok |-> TRUE, json |-> FALSE, ac |-> Absent, states |-> Absent],
     [ok |-> TRUE, json |-> TRUE, ac |-> Absent, states |-> Absent],
     [ok |-> TRUE, json |-> TRUE, ac |-> 1, states |-> Absent],
     [ok |-> TRUE, json |-> TRUE, ac |-> Absent, states |-> 1]}
\* what the consumer's onUpdate callback does when it is called
UpdateOutcomes == {"returns", "throws"}
\* number of aircraft records a successful response carries
TargetCounts == {0, 1}

None == [none |-> TRUE]
NoProvider == "-"

VARIABLES
    state,                  \* 'IDLE' | 'SCANNING' | 'RECOVERY' | 'FAULT'
    updateCallback,         \* whether a callback is registered (TRUE) or the field is null (FALSE)
    logCallback,            \* the same for the log callback
    failures,               \* consecutive-failure counter
    currentProviderIndex,   \* 0-based cursor into PROVIDER_ORDER
    lat, lon, rangeKm,      \* configuration
    sessionId,              \* session token
    timer,                  \* the armed timeout this.timer refers to, or None
    abortController,        \* the unsettled request whose controller this.abortController is, or None
    strayTimers,            \* bag of armed timeouts this.timer no longer refers to
    strayFetches,           \* bag of unsettled requests this.abortController no longer refers to
    onLine,                 \* navigator.onLine
    logs,                   \* entries passed to log() by the last task
    delivered,              \* RadarUpdate passed to dispatch() by the last task, or None
    heard,                  \* entries the log callback was called with by the last task
    seen,                   \* RadarUpdate the update callback was called with by the last task, or None
    armed,                  \* [delay, sid] passed to setTimeout by the last task, or None
    requested,              \* [provider, lat, lon, rangeKm, sid, range] of the request issued by the last task, or None
    lastFailedProvider,     \* history: provider of the latest counted failure since the counter was last 0, or NoProvider
    ev,                     \* history: what the last task was
    rawData,                \* the intermediate records handed to processTargets
    targets,                \* [list, origin]: the list processTargets returned for them and the (lat, lon) it projected from, or None
    protocol,               \* window.location.protocol
    thrown,                 \* [name, message, cause, url]: the error executeFetchStrategy last rejected with, the error it caught and the URL it had requested, or None
    streak,                 \* history: [from, failed], the cursor when start() was last called with the network reachable and the providers of the requests counted as failed since, or None once the network has been unreachable
    wrapper,                \* the call of fetchJson under way or settled, or None
    queried                 \* [by, rangeKm, range]: the adapter of flightService last called, its rangeKm argument and the range its URL asks for, or None

controllerVars ==
    <<state, failures, currentProviderIndex, lat, lon, rangeKm, sessionId,
      timer, abortController, strayTimers, strayFetches,
      onLine, logs, delivered, armed, requested, lastFailedProvider, ev,
      updateCallback, logCallback, heard, seen>>

normalizerVars == <<rawData, targets>>

adapterVars == <<queried, wrapper>>

\* what the controller leaves alone
transportVars == <<protocol, thrown>>

functionVars == <<normalizerVars, adapterVars, transportVars, streak>>

vars == <<controllerVars, functionVars>>

(***************************************************************************)
(* A timeout is [sid]: the token its callback captured (its delay is kept  *)
(* in armed, for the task that armed it).  A request is [sid, provider,    *)
(* aborted]: the token and provider its iteration captured and whether its *)
(* signal has been aborted (the position and range its URL was built from  *)
(* are kept in requested, for the task that issued it).                    *)
(*                                                                         *)
(* this.timer is not cleared when its timeout fires and                    *)
(* this.abortController is not cleared when its request settles; both are  *)
(* then modelled as None, since clearTimeout of a fired timeout and abort  *)
(* of a settled request do nothing.                                        *)
(*                                                                         *)
(* The controller's mutable fields are gathered in one record, so that the *)
(* private methods can be written as functions from fields to fields.      *)
(***************************************************************************)
Fields ==
    [state |-> state, failures |-> failures,
     currentProviderIndex |-> currentProviderIndex,
     lat |-> lat, lon |-> lon, rangeKm |-> rangeKm, sessionId |-> sessionId,
     timer |-> timer, abortController |-> abortController,
     strayTimers |-> strayTimers, strayFetches |-> strayFetches,
     logs |-> <<>>, delivered |-> None, armed |-> None, requested |-> None,
     lastFailedProvider |-> lastFailedProvider,
     updateCallback |-> updateCallback, logCallback |-> logCallback,
     heard |-> <<>>, seen |-> None]

Commit(c) ==
    /\ state' = c.state
    /\ failures' = c.failures
    /\ currentProviderIndex' = c.currentProviderIndex
    /\ lat' = c.lat
    /\ lon' = c.lon
    /\ rangeKm' = c.rangeKm
    /\ sessionId' = c.sessionId
    /\ timer' = c.timer
    /\ abortController' = c.abortController
    /\ strayTimers' = c.strayTimers
    /\ strayFetches' = c.strayFetches
    /\ logs' = c.logs
    /\ delivered' = c.delivered
    /\ armed' = c.armed
    /\ requested' = c.requested
    /\ lastFailedProvider' = c.lastFailedProvider
    /\ updateCallback' = c.updateCallback
    /\ logCallback' = c.logCallback
    /\ heard' = c.heard
    /\ seen' = c.seen

\* the bag b with one more copy of x, unless x is None
Put(b, x) == IF x = None THEN b ELSE b (+) SetToBag({x})

\* the bag b with one copy of x removed
Take(b, x) == b (-) SetToBag({x})

\* variant: the entry is handed on whether or not a callback is registered
log_Unguarded(c, level, message) ==
    [c EXCEPT !.logs = Append(@, [level |-> level, message |-> message]),
              !.heard = Append(@, [level |-> level, message |-> message])]

\* this.log(level, message, details): the entry goes to the log callback
\* if one is registered
log(c, level, message) ==
    [c EXCEPT !.logs = Append(@, [level |-> level, message |-> message]),
              !.heard = IF c.logCallback
                        THEN Append(@, [level |-> level, message |-> message])
                        ELSE @]

\* variant: an empty target list is not passed on
dispatch_SkipsEmpty(c, n, f) ==
    IF n = 0 THEN c
    ELSE LET update == [targets |-> n, state |-> c.state, provider |-> f.provider,
                        session |-> f.sid, origin |-> <<c.lat, c.lon>>,
                        logged |-> Len(c.logs), scheduled |-> (c.armed # None)]
         IN [c EXCEPT !.delivered = update,
                      !.seen = IF c.updateCallback THEN update ELSE @]

\* this.dispatch(targets, provider): n targets, projected about origin by
\* processTargets, from the response to request f; logged and scheduled
\* record what the task had done when the callback was called (the number
\* of log entries it had emitted, whether it had armed a timeout); the
\* update goes to the update callback if one is registered
dispatch(c, n, f) ==
    LET update == [targets |-> n, state |-> c.state, provider |-> f.provider,
                   session |-> f.sid, origin |-> <<c.lat, c.lon>>,
                   logged |-> Len(c.logs), scheduled |-> (c.armed # None)]
    IN [c EXCEPT !.delivered = update,
                 !.seen = IF c.updateCallback THEN update ELSE @]

\* indexOf(provider), -1 when absent
IndexOf(provider) ==
    IF \E i \in DOMAIN PROVIDER_ORDER : PROVIDER_ORDER[i] = provider
    THEN (CHOOSE i \in DOMAIN PROVIDER_ORDER : PROVIDER_ORDER[i] = provider) - 1
    ELSE -1

\* clearTimeout(this.timer), this.abortController.abort(), both fields nulled
cleanup(c) ==
    [c EXCEPT
        !.timer = None,
        !.abortController = None,
        !.strayFetches =
            IF c.abortController = None THEN @
            ELSE Put(@, [c.abortController EXCEPT !.aborted = TRUE])]

\* the guard of scheduleNext
ScheduleSkipped(c, activeSessionId) ==
    c.state = "IDLE" \/ activeSessionId # c.sessionId

scheduleNext(c, delay, activeSessionId) ==
    IF ScheduleSkipped(c, activeSessionId) THEN c
    ELSE [c EXCEPT !.timer = [sid |-> activeSessionId],
                   !.strayTimers = Put(@, c.timer),
                   !.armed = [delay |-> delay, sid |-> activeSessionId]]

\* variant: the cursor advances without wrapping
rotateProvider_NoWrap(c) ==
    [c EXCEPT !.currentProviderIndex = @ + 1,
              !.lastFailedProvider = NoProvider]

rotateProvider(c) ==
    [c EXCEPT !.currentProviderIndex = (@ + 1) % Len(PROVIDER_ORDER),
              !.lastFailedProvider = NoProvider]

\* the stale-session check at the top of scanLoop
StaleAtEntry(c, activeSessionId) == activeSessionId # c.sessionId

\* variant: the result is used whatever token the iteration captured
StaleAfterAwait_Never(c, activeSessionId) == FALSE

\* the stale-session check after the await, success path
StaleAfterAwait(c, activeSessionId) == activeSessionId # c.sessionId

\* the stale-session check in the catch block
StaleInCatch(c, activeSessionId) == activeSessionId # c.sessionId

\* variant: an unreachable network is treated as a provider outage
scanLoopOffline_Rotates(c, activeSessionId) ==
    scheduleNext(
        rotateProvider([log(c, "ERROR", "Network Link Offline")
                           EXCEPT !.state = "FAULT"]),
        OfflineRetryMs, activeSessionId)

\* scanLoop's connectivity branch: navigator.onLine is false
scanLoopOffline(c, activeSessionId) ==
    scheduleNext(
        [log(c, "ERROR", "Network Link Offline")
            EXCEPT !.state = "FAULT"],
        OfflineRetryMs, activeSessionId)

Min(a, b) == IF a < b THEN a ELSE b
Max(a, b) == IF a > b THEN a ELSE b

\* Math.ceil(rangeKm * 0.539957), rangeKm a whole number
ToNauticalMiles(r) == 0 - ((0 - r * 539957) \div 1000000)

\* the range the URL built by executeFetchStrategy asks for: safeRange, in
\* nautical miles, of the two radial queries, clampedRange, in km, of the
\* bounding box
queryRange(provider, r) ==
    IF provider \in {"ADSB_LOL", "AIRPLANES_LIVE"}
    THEN Max(Min(ToNauticalMiles(r), 250), 1)
    ELSE Min(r, 500)

\* scanLoop from its entry to its first await (or return)
scanLoop(c, activeSessionId) ==
    IF StaleAtEntry(c, activeSessionId) THEN c
    ELSE IF c.state = "IDLE" THEN c
    ELSE IF ~onLine
    THEN scanLoopOffline(c, activeSessionId)
    ELSE LET provider == PROVIDER_ORDER[c.currentProviderIndex + 1]
         IN log([c EXCEPT
                    !.abortController =
                        [sid |-> activeSessionId, provider |-> provider,
                         aborted |-> FALSE],
                    !.strayFetches = Put(@, c.abortController),
                    !.requested =
                        [provider |-> provider, lat |-> c.lat, lon |-> c.lon,
                         rangeKm |-> c.rangeKm, sid |-> activeSessionId,
                         range |-> queryRange(provider, c.rangeKm)]],
                "INFO", "uplinking...")

\* variant: the long-range interval begins at the threshold itself
PollDelay_FromThreshold(r) ==
    IF r >= LongRangeKm THEN LongRangePollMs ELSE StandardPollMs

\* this.rangeKm > 300 ? 15000 : 6000
PollDelay(r) ==
    IF r > LongRangeKm THEN LongRangePollMs ELSE StandardPollMs

\* variant: the success handling leaves the machine state as it finds it
successEmit_KeepsState(c, f, n) ==
    LET c1 == [c EXCEPT !.failures = 0, !.lastFailedProvider = NoProvider]
        c2 == IF n > 0 THEN log(c1, "SUCCESS", "Target Lock")
              ELSE log(c1, "INFO", "Scan Complete - Sector Clear")
    IN dispatch(c2, n, f)

\* the success handling of scanLoop up to and including dispatch
successEmit(c, f, n) ==
    LET c1 == [c EXCEPT !.failures = 0, !.state = "SCANNING",
                        !.lastFailedProvider = NoProvider]
        c2 == IF n > 0 THEN log(c1, "SUCCESS", "Target Lock")
              ELSE log(c1, "INFO", "Scan Complete - Sector Clear")
    IN dispatch(c2, n, f)

\* scanLoop after the await resolved with n aircraft records
scanLoopSuccess(c, f, n) ==
    IF StaleAfterAwait(c, f.sid) THEN c
    ELSE LET c3 == successEmit(c, f, n)
         IN scheduleNext(c3, PollDelay(c3.rangeKm), f.sid)

\* variant: a failure that is retried on the same provider marks the state
countFailure_Recovery(c, f) ==
    LET c1 == log([c EXCEPT !.failures = @ + 1,
                            !.lastFailedProvider = f.provider],
                  "ERROR", "Scan Failed")
    IN IF c1.failures >= MAX_FAILURES_PER_PROVIDER
       THEN scheduleNext(
               log(rotateProvider([c1 EXCEPT !.failures = 0]),
                   "WARN", "Rerouting Data Link"),
               FailoverRetryMs, f.sid)
       ELSE scheduleNext([c1 EXCEPT !.state = "RECOVERY"], SameProviderRetryMs, f.sid)

\* the else branch of scanLoop's catch block: the failure is counted
countFailure(c, f) ==
    LET c1 == log([c EXCEPT !.failures = @ + 1,
                            !.lastFailedProvider = f.provider],
                  "ERROR", "Scan Failed")
    IN IF c1.failures >= MAX_FAILURES_PER_PROVIDER
       THEN scheduleNext(
               log(rotateProvider([c1 EXCEPT !.failures = 0]),
                   "WARN", "Rerouting Data Link"),
               FailoverRetryMs, f.sid)
       ELSE scheduleNext(c1, SameProviderRetryMs, f.sid)

\* variant: a cancelled request is handled like any other failure
scanLoopCatch_CountsAborts(c, f, abortError) ==
    IF StaleInCatch(c, f.sid) THEN c
    ELSE countFailure(c, f)

\* scanLoop's catch block; abortError is error.name === 'AbortError'
scanLoopCatch(c, f, abortError) ==
    IF StaleInCatch(c, f.sid) THEN c
    ELSE IF abortError THEN c
    ELSE countFailure(c, f)

\* scanLoop after the await resolved with n aircraft records, when the
\* consumer's onUpdate callback throws: dispatch is called inside the try
\* block, so the exception is caught by scanLoop's own catch
scanLoopUpdateThrows(c, f, n) ==
    IF StaleAfterAwait(c, f.sid) THEN c
    ELSE scanLoopCatch(successEmit(c, f, n), f, FALSE)

\* executeFetchStrategy once the response r has arrived, for a request to
\* provider: [failed, n], it throws or returns n records
executeFetchStrategy(r, provider) ==
    IF ~r.ok THEN [failed |-> TRUE, n |-> 0]
    ELSE IF ~r.json THEN [failed |-> TRUE, n |-> 0]
    ELSE IF provider \in {"ADSB_LOL", "AIRPLANES_LIVE"}
    THEN [failed |-> FALSE, n |-> IF r.ac = Absent THEN 0 ELSE r.ac]
    ELSE IF provider = "OPENSKY"
    THEN [failed |-> FALSE, n |-> IF r.states = Absent THEN 0 ELSE r.states]
    ELSE [failed |-> FALSE, n |-> 0]

\* variant: the new iteration begins without cancelling the old one
restart_NoCleanup(c) == scanLoop(c, c.sessionId)

restart(c) == scanLoop(cleanup(c), c.sessionId)

\* variant: every call counts as a change
Changed_Always(c, la, lo, r) == TRUE

\* const changed = this.lat !== lat || this.lon !== lon || this.rangeKm !== rangeKm
Changed(c, la, lo, r) == c.lat # la \/ c.lon # lo \/ c.rangeKm # r

\* this.sessionId++ in the changed branch of setConfig
BumpSession(c) == [c EXCEPT !.sessionId = @ + 1]

\* variant: start() returns early whenever the controller is not idle
StartIsNoop_UnlessIdle(c) == c.state # "IDLE"

\* the early return of start()
StartIsNoop(c) == c.state = "SCANNING"

\* the early return of stop()
StopIsNoop(c) == c.state = "IDLE"

HasLog(ls, message) == \E i \in DOMAIN ls : ls[i].message = message

\* armed timeouts and unsettled requests, as sets of [held, item]
ArmedTimers(c) ==
    (IF c.timer = None THEN {} ELSE {[held |-> TRUE, item |-> c.timer]})
    \cup {[held |-> FALSE, item |-> t] : t \in BagToSet(c.strayTimers)}

OpenFetches(c) ==
    (IF c.abortController = None THEN {} ELSE {[held |-> TRUE, item |-> c.abortController]})
    \cup {[held |-> FALSE, item |-> f] : f \in BagToSet(c.strayFetches)}

Pending(c) ==
    (IF c.timer = None THEN 0 ELSE 1) + BagCardinality(c.strayTimers)
    + (IF c.abortController = None THEN 0 ELSE 1) + BagCardinality(c.strayFetches)

\* An aborted request rejects at once, and its continuation (scanLoop's catch)
\* runs as a microtask: after the public calls of the running task, before
\* any other task.  While one is queued only public calls and that
\* continuation can run.
MicrotaskQueued == \E x \in OpenFetches(Fields) : x.item.aborted

\* the fields once timeout x has fired / request x has settled
WithoutTimer(c, x) ==
    IF x.held THEN [c EXCEPT !.timer = None]
    ELSE [c EXCEPT !.strayTimers = Take(@, x.item)]

WithoutFetch(c, x) ==
    IF x.held THEN [c EXCEPT !.abortController = None]
    ELSE [c EXCEPT !.strayFetches = Take(@, x.item)]

NoItem == [sid |-> -1, provider |-> NoProvider]

Config == <<lat, lon, rangeKm>>

\* history of the last task: which it was, the machine state a public call
\* found, whether it is a start() that directly follows a stop(), the token
\* captured by the iteration a resolved request resumed, and the provider a
\* rejected request was issued to or setConfig was called with
Event(op, item) ==
    [op |-> op,
     preState |-> IF op \in {"start", "stop", "setConfig"} THEN state ELSE "-",
     afterStop |-> (op = "start" /\ ev.op = "stop"),
     captured |-> item.sid,
     provider |-> item.provider]

(***************************************************************************)
(* Actions                                                                 *)
(***************************************************************************)
\* the controller after its constructor: both callback fields are null, and
\* the entry the constructor logs goes nowhere
constructor ==
    /\ state = "IDLE"
    /\ failures = 0
    /\ currentProviderIndex = 0
    /\ lat = 0
    /\ lon = 0
    /\ rangeKm = 50
    /\ sessionId = 0
    /\ timer = None
    /\ abortController = None
    /\ strayTimers = EmptyBag
    /\ strayFetches = EmptyBag
    /\ onLine \in BOOLEAN
    /\ LET c == log([logCallback |-> FALSE, logs |-> <<>>, heard |-> <<>>],
                     "INFO", "Radar Controller Initialized")
       IN logs = c.logs /\ heard = c.heard
    /\ delivered = None
    /\ lastFailedProvider = NoProvider
    /\ armed = None
    /\ requested = None
    /\ ev = [op |-> "init", preState |-> "-", afterStop |-> FALSE,
             captured |-> -1, provider |-> NoProvider]
    /\ seen = None

\* the consumer registers its callbacks
registered ==
    /\ updateCallback = TRUE
    /\ logCallback = TRUE

\* the controller once the consumer has constructed it and registered its
\* two callbacks
InitController == constructor /\ registered

\* no call of an adapter of flightService has been made
InitAdapters ==
    /\ queried = None
    /\ wrapper = None

\* the page was loaded over https and no request has failed
InitTransport ==
    /\ protocol = "https:"
    /\ thrown = None
    /\ streak = None

Init ==
    /\ InitController
    /\ rawData = <<>>
    /\ targets = None
    /\ InitAdapters
    /\ InitTransport

\* variant: a provider that is not in the sequence leaves the cursor alone
cursorFor_KeepsIfUnlisted(c, provider) ==
    LET newIndex == IndexOf(provider)
    IN IF newIndex >= 0 THEN newIndex ELSE c.currentProviderIndex

\* this.currentProviderIndex = newIndex >= 0 ? newIndex : 0
cursorFor(c, provider) ==
    LET newIndex == IndexOf(provider)
    IN IF newIndex >= 0 THEN newIndex ELSE 0

\* variant: a scanning controller is restarted by every call
setConfigBody_RestartsAlways(c, provider, la, lo, r) ==
    LET c1 == [c EXCEPT !.currentProviderIndex = cursorFor(c, provider),
                        !.lat = la, !.lon = lo, !.rangeKm = r]
        c2 == IF Changed(c, la, lo, r)
              THEN BumpSession(log(c1, "INFO", "Configuration Updated"))
              ELSE c1
    IN IF c2.state = "SCANNING" THEN restart(c2) ELSE c2

setConfigBody(c, provider, la, lo, r) ==
    LET c1 == [c EXCEPT !.currentProviderIndex = cursorFor(c, provider),
                        !.lat = la, !.lon = lo, !.rangeKm = r]
    IN IF Changed(c, la, lo, r)
       THEN LET c2 == BumpSession(log(c1, "INFO", "Configuration Updated"))
            IN IF c2.state = "SCANNING" THEN restart(c2) ELSE c2
       ELSE c1

\* a call of setConfig(provider, cfg[1], cfg[2], cfg[3]), recorded as e
setConfigCall(provider, cfg, e) ==
    LET c == Fields
        changed == Changed(c, cfg[1], cfg[2], cfg[3])
        c1 == setConfigBody(c, provider, cfg[1], cfg[2], cfg[3])
    IN /\ changed => sessionId < MaxSession
       /\ Pending(c1) <= MaxPending
       /\ Commit(c1)
       /\ onLine' = onLine
       /\ ev' = e
       /\ UNCHANGED functionVars

\* a call of setConfig with arguments drawn from the given sets
setConfigFrom(providers, cfgs) ==
    \E provider \in providers, cfg \in cfgs :
        setConfigCall(provider, cfg,
                      Event("setConfig", [sid |-> -1, provider |-> provider]))

setConfig == setConfigFrom(ProviderArgs, ConfigArgs)

startBody(c) ==
    IF StartIsNoop(c) THEN c
    ELSE scanLoop([log(c, "INFO", "System Start Sequence Initiated")
                      EXCEPT !.failures = 0, !.state = "SCANNING",
                             !.lastFailedProvider = NoProvider],
                  c.sessionId)

\* what a call of start() does to the controller
startStep ==
    LET c1 == startBody(Fields)
    IN /\ Pending(c1) <= MaxPending
       /\ Commit(c1)
       /\ onLine' = onLine
       /\ ev' = Event("start", NoItem)

start == startStep /\ UNCHANGED functionVars

\* variant: stop() opens a new session, as a reconfiguration does
stopBody_NewSession(c) ==
    IF StopIsNoop(c) THEN c
    ELSE cleanup(BumpSession(
            [log(c, "INFO", "System Shutdown Sequence") EXCEPT !.state = "IDLE"]))

stopBody(c) ==
    IF StopIsNoop(c) THEN c
    ELSE cleanup([log(c, "INFO", "System Shutdown Sequence") EXCEPT !.state = "IDLE"])

stop ==
    LET c1 == stopBody(Fields)
    IN /\ Commit(c1)
       /\ onLine' = onLine
       /\ ev' = Event("stop", NoItem)
       /\ UNCHANGED functionVars

\* a timeout armed by scheduleNext fires: () => this.scanLoop(activeSessionId)
timerStep ==
    \E x \in ArmedTimers(Fields) :
        LET c1 == scanLoop(WithoutTimer(Fields, x), x.item.sid)
        IN /\ ~MicrotaskQueued
           /\ Commit(c1)
           /\ onLine' = onLine
           /\ ev' = Event("timer", NoItem)

timerFires == timerStep /\ UNCHANGED functionVars

\* the promise of executeFetchStrategy resolves with n records
fetchResolves ==
    \E x \in OpenFetches(Fields), n \in TargetCounts :
        LET c1 == scanLoopSuccess(WithoutFetch(Fields, x), x.item, n)
        IN /\ ~MicrotaskQueued
           /\ Commit(c1)
           /\ onLine' = onLine
           /\ ev' = Event("resolve", [sid |-> x.item.sid, provider |-> NoProvider])
           /\ UNCHANGED functionVars

\* the promise of executeFetchStrategy rejects: with an AbortError when the
\* request's signal was aborted, with a transport or HTTP error otherwise
rejectStep ==
    \E x \in OpenFetches(Fields) :
        LET c1 == scanLoopCatch(WithoutFetch(Fields, x), x.item, x.item.aborted)
        IN /\ MicrotaskQueued => x.item.aborted
           /\ Commit(c1)
           /\ onLine' = onLine
           /\ ev' = Event("reject", [sid |-> -1, provider |-> x.item.provider])

fetchRejects == rejectStep /\ UNCHANGED functionVars

\* navigator.onLine changes
connectivityStep ==
    /\ ~MicrotaskQueued
    /\ onLine' = ~onLine
    /\ Commit(Fields)
    /\ ev' = Event("connectivity", NoItem)

connectivityChanges == connectivityStep /\ UNCHANGED functionVars

Next ==
    \/ setConfig
    \/ start
    \/ stop
    \/ timerFires
    \/ fetchResolves
    \/ fetchRejects
    \/ connectivityChanges

Spec == Init /\ [][Next]_vars

(***************************************************************************)
(* The controller with its collaborators in more detail: the HTTP response *)
(* a request completes with, and a consumer whose onUpdate may throw.      *)
(***************************************************************************)
fetchCompletes ==
    \E x \in OpenFetches(Fields), r \in Responses, u \in UpdateOutcomes :
        LET c == WithoutFetch(Fields, x)
            out == executeFetchStrategy(r, x.item.provider)
            c1 == IF out.failed THEN scanLoopCatch(c, x.item, FALSE)
                  ELSE IF u = "throws" THEN scanLoopUpdateThrows(c, x.item, out.n)
                  ELSE scanLoopSuccess(c, x.item, out.n)
            e == Event("complete", x.item)
        IN /\ ~MicrotaskQueued
           /\ Commit(c1)
           /\ onLine' = onLine
           /\ ev' = [op |-> e.op, preState |-> e.preState,
                     afterStop |-> e.afterStop, captured |-> e.captured,
                     provider |-> e.provider, response |-> r,
                     onUpdate |-> IF c1.delivered = None THEN "-" ELSE u]
           /\ UNCHANGED functionVars

NextEnv ==
    \/ setConfig
    \/ start
    \/ stop
    \/ timerFires
    \/ fetchCompletes
    \/ fetchRejects
    \/ connectivityChanges

SpecEnv == Init /\ [][NextEnv]_vars

(***************************************************************************)
(* The normalizer, processTargets, applied to a list of intermediate       *)
(* records.  A field of a record is a JavaScript value [t, v, s]: its      *)
(* type, its value when a number, its text when a string.  A number is     *)
(* kept in hundredths (v = 5101 is 51.01) and a text as the sequence of    *)
(* its characters.  The lengths and speeds of a target are in hundredths   *)
(* as well (centimetres, centimetres per second).                          *)
(***************************************************************************)
Num(n) == [t |-> "number", v |-> n, s |-> <<>>]
Str(x) == [t |-> "string", v |-> 0, s |-> x]
Null == [t |-> "null", v |-> 0, s |-> <<>>]
\* the value of a field the record does not have
Undefined == [t |-> "undefined", v |-> 0, s |-> <<>>]

\* item.name
Field(item, name) == IF name \in DOMAIN item THEN item[name] ELSE Undefined

\* latitude and longitude fields of the records handed in: 51, "51", "N/A"
CoordValues == {Num(5100), Str(<<"5", "1">>), Str(<<"N", "/", "A">>), Null, Undefined}
\* their hex fields, by position in the list
HexCodes == <<<<"4", "c", "a", "1", "f", "3">>,
              <<"a", "0", "b", "1", "c", "2">>,
              <<"3", "c", "6", "5", "8", "9">>>>

NaN == [nan |-> TRUE, v |-> 0]
Finite(n) == [nan |-> FALSE, v |-> n]

\* the strings among the inputs that Number() reads as a number
NumericLiterals == (<<>> :> 0) @@ (<<"5", "1">> :> 5100)

\* Number(x)
Number(x) ==
    CASE x.t = "number" -> Finite(x.v)
      [] x.t = "null" -> Finite(0)
      [] x.t = "undefined" -> NaN
      [] x.t = "string" ->
            IF x.s \in DOMAIN NumericLiterals THEN Finite(NumericLiterals[x.s])
            ELSE NaN

isNaN(n) == n.nan

\* Number(x) || 0
NumberOrZero(x) == IF isNaN(Number(x)) THEN 0 ELSE Number(x).v

LowerCase ==
    <<"a", "b", "c", "d", "e", "f", "g", "h", "i", "j", "k", "l", "m",
      "n", "o", "p", "q", "r", "s", "t", "u", "v", "w", "x", "y", "z">>
UpperCase ==
    <<"A", "B", "C", "D", "E", "F", "G", "H", "I", "J", "K", "L", "M",
      "N", "O", "P", "Q", "R", "S", "T", "U", "V", "W", "X", "Y", "Z">>

\* String.prototype.toUpperCase
toUpperCase(x) ==
    [i \in DOMAIN x |->
        IF \E k \in DOMAIN LowerCase : LowerCase[k] = x[i]
        THEN UpperCase[CHOOSE k \in DOMAIN LowerCase : LowerCase[k] = x[i]]
        ELSE x[i]]

\* String.prototype.startsWith
startsWith(x, prefix) ==
    Len(x) >= Len(prefix) /\ SubSeq(x, 1, Len(prefix)) = prefix

\* String(x || '') for a field that is a string, null or missing
StringOrEmpty(x) ==
    CASE x.t \in {"null", "undefined"} -> <<>>
      [] x.t = "string" -> x.s

\* Math.cos and Math.sin of an angle in whole degrees, to four decimals, for
\* the origins and headings used
CosE4 == (0 :> 10000) @@ (51 :> 6293) @@ (90 :> 0) @@ (180 :> -10000) @@ (270 :> 0)
SinE4 == (0 :> 0) @@ (90 :> 10000) @@ (180 :> 0) @@ (270 :> -10000)

\* variant: a degree of longitude is as long at every latitude
projectX_NoCosine(lngDiff, originLat) == lngDiff * 111320

\* x = lngDiff * (111320 * Math.cos(this.lat * Math.PI / 180))
projectX(lngDiff, originLat) == lngDiff * ((111320 * CosE4[originLat]) \div 10000)

\* y = latDiff * 110574
projectY(latDiff) == latDiff * 110574

\* speedKnots * 0.514444
speedMs(speedKnots) == (speedKnots * 514) \div 1000 + (speedKnots * 444) \div 1000000

\* feet * 0.3048 (381 / 1250)
altitudeM(feet) == (feet * 381) \div 1250

\* variant: the type code is taken as given
typeOf_AsGiven(item) == StringOrEmpty(Field(item, "t"))

\* const type = String(item.t || '').toUpperCase()
typeOf(item) == toUpperCase(StringOrEmpty(Field(item, "t")))

\* the radar cross-section chosen for a type code
rcsOf(type) ==
    IF startsWith(type, <<"B", "7">>) \/ startsWith(type, <<"A", "3">>) THEN 50
    ELSE IF startsWith(type, <<"C", "1">>) \/ startsWith(type, <<"P", "2">>) THEN 2
    ELSE IF startsWith(type, <<"F">>) \/ startsWith(type, <<"M">>) THEN 10
    ELSE 5

\* the callback of rawData.map in processTargets: null (None) for a record
\* whose lat or lon casts to NaN, else the target
toTarget(item) ==
    LET la == Number(Field(item, "lat"))
        lo == Number(Field(item, "lon"))
        speed == speedMs(NumberOrZero(Field(item, "gs")))
        heading == NumberOrZero(Field(item, "track")) \div 100
        type == typeOf(item)
    IN IF isNaN(la) \/ isNaN(lo) THEN None
       ELSE [id |-> toUpperCase(item.hex),
             position |-> [x |-> projectX(lo.v - lon * 100, lat),
                           y |-> projectY(la.v - lat * 100)],
             velocity |-> [vx |-> (speed * SinE4[heading]) \div 10000,
                           vy |-> (speed * CosE4[heading]) \div 10000],
             altitude |-> altitudeM(NumberOrZero(Field(item, "alt_baro"))),
             rcs |-> rcsOf(type),
             typeCode |-> type,
             geo |-> [lat |-> la.v, lon |-> lo.v]]

NotNull(t) == t # None

processTargets(raw) ==
    SelectSeq([i \in DOMAIN raw |-> toTarget(raw[i])], NotNull)

\* the lists of at most MaxRecords records
RawLists ==
    UNION {{[i \in 1 .. n |-> [hex |-> HexCodes[i], lat |-> cs[i][1], lon |-> cs[i][2]]] :
                cs \in [1 .. n -> CoordValues \X CoordValues]} :
           n \in 0 .. MaxRecords}

InitNormalizer ==
    /\ InitController
    /\ onLine
    /\ rawData \in RawLists
    /\ targets = None
    /\ InitAdapters
    /\ InitTransport

normalize ==
    /\ targets = None
    /\ targets' = [list |-> processTargets(rawData), origin |-> <<lat, lon>>]
    /\ UNCHANGED <<rawData, controllerVars, adapterVars, transportVars, streak>>

NextNormalizer == normalize

SpecNormalizer == InitNormalizer /\ [][NextNormalizer]_vars

(***************************************************************************)
(* processTargets on one position report, with the controller at the       *)
(* constructor's origin or reconfigured to (51, 0).                        *)
(***************************************************************************)
\* type codes: B738, b738, A320, C172, P28A, F16, MD11, E190, B350, A, the
\* empty string, null and a record without the field
TypeCodes ==
    {Str(<<"B", "7", "3", "8">>), Str(<<"b", "7", "3", "8">>),
     Str(<<"A", "3", "2", "0">>), Str(<<"C", "1", "7", "2">>),
     Str(<<"P", "2", "8", "A">>), Str(<<"F", "1", "6">>),
     Str(<<"M", "D", "1", "1">>), Str(<<"E", "1", "9", "0">>),
     Str(<<"B", "3", "5", "0">>), Str(<<"A">>), Str(<<>>), Null, Undefined}

\* reports near (51, 0): lat 51 or 51.01, lon -0.02, 0 or 0.02, 450 kt or no
\* ground speed, a heading on a compass point, 35000 ft or "ground"
Reports ==
    {<<[hex |-> HexCodes[1], lat |-> Num(la), lon |-> Num(lo), gs |-> gs,
        track |-> Num(tr), alt_baro |-> alt, t |-> t]>> :
        la \in {5100, 5101}, lo \in {-2, 0, 2}, gs \in {Num(45000), Undefined},
        tr \in {0, 9000, 18000, 27000},
        alt \in {Num(3500000), Str(<<"g", "r", "o", "u", "n", "d">>)},
        t \in TypeCodes}

\* (lat, lon, rangeKm) arguments of setConfig that move the origin
OriginArgs == {<<51, 0, 50>>}

InitProjection ==
    /\ InitController
    /\ onLine
    /\ rawData \in Reports
    /\ targets = None
    /\ InitAdapters
    /\ InitTransport

setConfigOrigin == setConfigFrom({"ADSB_LOL"}, OriginArgs)

NextProjection ==
    \/ setConfigOrigin
    \/ normalize

SpecProjection == InitProjection /\ [][NextProjection]_vars

(***************************************************************************)
(* The controller with the network reachable throughout, reconfigured      *)
(* with ranges at and on either side of the long-range threshold.          *)
(***************************************************************************)
InitOnline == Init /\ onLine

setConfigRange == setConfigFrom(ProviderArgs, RangeArgs)

NextRange ==
    \/ setConfigRange
    \/ start
    \/ stop
    \/ timerFires
    \/ fetchResolves
    \/ fetchRejects

SpecRange == InitOnline /\ [][NextRange]_vars

(***************************************************************************)
(* The errors executeFetchStrategy rejects with, for a page loaded over    *)
(* http or https.  Texts are sequences of characters.                      *)
(***************************************************************************)
\* the first characters of the URL built for a provider: that of
\* ADSB_API_URL (constants.ts) for ADSB_LOL, of the literals for the others
urlScheme(provider) ==
    IF provider = "ADSB_LOL" THEN <<"h", "t", "t", "p", "s", ":", "/", "/">>
    ELSE IF provider = "AIRPLANES_LIVE" THEN <<"h", "t", "t", "p", "s", ":", "/", "/">>
    ELSE IF provider = "OPENSKY" THEN <<"h", "t", "t", "p", "s", ":", "/", "/">>
    ELSE <<>>

\* what fetch() and the rest of the try block throw: the TypeError of
\* Chromium and of Firefox for a request that could not be made, an HTTP
\* status that is not ok, a body that is not JSON
Failures ==
    {[name |-> "TypeError", message |-> "Failed to fetch"],
     [name |-> "TypeError", message |-> "NetworkError when attempting to fetch resource."],
     [name |-> "Error", message |-> "HTTP 503"],
     [name |-> "SyntaxError", message |-> "Unexpected token"]}
\* what fetch() throws once its signal is aborted
AbortError == [name |-> "AbortError", message |-> "The user aborted a request."]

\* variant: the scheme of the URL is not looked at
strategyCatch_AnyUrl(e, url) ==
    IF e.message = "Failed to fetch"
    THEN IF protocol = "https:"
         THEN [name |-> "Error", message |-> "Mixed Content Blocked"]
         ELSE [name |-> "Error", message |-> "Network Error (CORS/Connection Refused)"]
    ELSE e

\* the catch block of executeFetchStrategy: the error it throws for the
\* error e it caught
strategyCatch(e, url) ==
    IF e.message = "Failed to fetch"
    THEN IF protocol = "https:" /\ startsWith(url, <<"h", "t", "t", "p", ":">>)
         THEN [name |-> "Error", message |-> "Mixed Content Blocked"]
         ELSE [name |-> "Error", message |-> "Network Error (CORS/Connection Refused)"]
    ELSE e

InitPage ==
    /\ InitController
    /\ onLine
    /\ rawData = <<>>
    /\ targets = None
    /\ InitAdapters
    /\ protocol \in {"http:", "https:"}
    /\ thrown = None
    /\ streak = None

\* the request fails: executeFetchStrategy catches e and rejects
fetchFails ==
    \E x \in OpenFetches(Fields), e \in Failures \cup {AbortError} :
        LET url == urlScheme(x.item.provider)
            err == strategyCatch(e, url)
            c1 == scanLoopCatch(WithoutFetch(Fields, x), x.item, err.name = "AbortError")
        IN /\ x.item.aborted <=> e = AbortError
           /\ Commit(c1)
           /\ onLine' = onLine
           /\ ev' = Event("reject", [sid |-> -1, provider |-> x.item.provider])
           /\ thrown' = [name |-> err.name, message |-> err.message,
                         cause |-> e, url |-> url]
           /\ UNCHANGED <<protocol, normalizerVars, adapterVars, streak>>

\* setConfig with the position and range left as they are
setConfigProvider == setConfigFrom(ProviderArgs, {<<0, 0, 50>>})

NextPage ==
    \/ setConfigProvider
    \/ start
    \/ stop
    \/ timerFires
    \/ fetchFails

SpecPage == InitPage /\ [][NextPage]_vars

(***************************************************************************)
(* Failover left to itself: after start() the consumer makes no call and   *)
(* every request fails.  streak records the failures counted since         *)
(* start() for as long as the network stays reachable.                     *)
(***************************************************************************)
\* failures counted in one streak
MaxStreak == 6

failoverStart ==
    /\ streak = None
    /\ startStep
    /\ streak' = IF onLine /\ ~StartIsNoop(Fields)
                 THEN [from |-> currentProviderIndex, failed |-> <<>>]
                 ELSE None
    /\ UNCHANGED <<normalizerVars, adapterVars, transportVars>>

failoverConnectivity ==
    /\ streak = None
    /\ connectivityStep
    /\ UNCHANGED functionVars

failoverTimer ==
    /\ timerStep
    /\ UNCHANGED functionVars

failoverReject ==
    /\ rejectStep
    /\ streak # None => Len(streak.failed) < MaxStreak
    /\ streak' = IF streak # None /\ HasLog(logs', "Scan Failed")
                 THEN [streak EXCEPT !.failed = Append(@, ev'.provider)]
                 ELSE streak
    /\ UNCHANGED <<normalizerVars, adapterVars, transportVars>>

NextFailover ==
    \/ failoverStart
    \/ failoverConnectivity
    \/ failoverTimer
    \/ failoverReject

SpecFailover == Init /\ [][NextFailover]_vars

(***************************************************************************)
(* The range each request asks its provider for: the controller            *)
(* reconfigured with ranges on either side of every limit, and the         *)
(* adapters of flightService (src/services/flightService.ts) called with   *)
(* the same ranges.  Requests stay unsettled here.                         *)
(***************************************************************************)
\* rangeKm values: 148 km is 80 nm and 149 km is 81 nm, 185 km is 100 nm and
\* 186 km is 101 nm, 463 km is 250 nm and 464 km is 251 nm
WideRanges == {0, 1, 50, 148, 149, 185, 186, 463, 464, 500, 501, 600}

\* getBoundingBox(lat, lon, rangeKm): the range its box is drawn for
getBoundingBox(r) == r

\* fetchAdsbLol: const rangeNm
fetchAdsbLolRange(r) == Min(ToNauticalMiles(r), 100)

\* fetchAirplanesLive: const rangeNm
fetchAirplanesLiveRange(r) == Min(ToNauticalMiles(r), 80)

\* fetchOpenSky: the range handed to getBoundingBox
fetchOpenSkyRange(r) == getBoundingBox(r)

InitWide ==
    /\ InitController
    /\ onLine
    /\ rawData = <<>>
    /\ targets = None
    /\ queried = None
    /\ wrapper = None
    /\ InitTransport

setConfigWide == setConfigFrom({"ADSB_LOL", "OPENSKY"}, {<<0, 0, r>> : r \in WideRanges})

\* a call of the adapter named by, with rangeKm = r
adapterCall(by, r, range) ==
    /\ queried' = [by |-> by, rangeKm |-> r, range |-> range]
    /\ UNCHANGED <<wrapper, controllerVars, normalizerVars, transportVars, streak>>

fetchAdsbLol ==
    \E r \in WideRanges : adapterCall("fetchAdsbLol", r, fetchAdsbLolRange(r))

fetchAirplanesLive ==
    \E r \in WideRanges : adapterCall("fetchAirplanesLive", r, fetchAirplanesLiveRange(r))

fetchOpenSky ==
    \E r \in WideRanges : adapterCall("fetchOpenSky", r, fetchOpenSkyRange(r))

NextWide ==
    \/ setConfigWide
    \/ start
    \/ stop
    \/ fetchAdsbLol
    \/ fetchAirplanesLive
    \/ fetchOpenSky

SpecWide == InitWide /\ [][NextWide]_vars

(***************************************************************************)
(* fetchJson of flightService, one call at a time.  wrapper is             *)
(*   [asked, ended, retries, hasSignal, signalAborted, pending, aborted,   *)
(*    cause, timerArmed, listening, timers, listeners, attempts, outcome]: *)
(* the retries argument and what the latest attempt ended with (history),  *)
(* the retries left, whether the caller passed a signal and whether that   *)
(* signal is aborted; of the attempt under way, whether its fetch is       *)
(* unsettled, whether its own controller is aborted and by what (history), *)
(* whether its timeout is armed and its listener attached; the armed       *)
(* timeouts and attached listeners of all attempts, the number of fetch()  *)
(* calls made (history), and what the call settled with, or None.          *)
(***************************************************************************)
\* largest retries argument
MaxRetries == 1

\* what fetch(), the response.ok test and response.json() end an attempt with
\* when the request was not aborted; "ok" stands for a parsed body
AttemptResults ==
    {[name |-> "ok", message |-> ""],
     [name |-> "TypeError", message |-> "Failed to fetch"],
     [name |-> "Error", message |-> "HTTP 503: Service Unavailable"],
     [name |-> "SyntaxError", message |-> "Unexpected token"]}

\* the synchronous part of fetchJson: a controller of its own, linked to the
\* caller's signal, a timeout, and the fetch
beginAttempt(w) ==
    LET preAborted == w.hasSignal /\ w.signalAborted
        listens == w.hasSignal /\ ~w.signalAborted
    IN [w EXCEPT !.pending = TRUE,
                 !.aborted = preAborted,
                 !.cause = IF preAborted THEN "caller" ELSE "none",
                 !.listening = listens,
                 !.listeners = @ + (IF listens THEN 1 ELSE 0),
                 !.timerArmed = TRUE,
                 !.timers = @ + 1,
                 !.attempts = @ + 1]

\* variant: the finally block clears the timeout only
release_KeepsListener(w, old) ==
    [w EXCEPT !.timers = @ - (IF old.timerArmed THEN 1 ELSE 0)]

\* the finally block of the attempt whose timeout and listener old describes
release(w, old) ==
    [w EXCEPT !.timers = @ - (IF old.timerArmed THEN 1 ELSE 0),
              !.listeners = @ - (IF old.listening THEN 1 ELSE 0)]

\* the call settles: the attempt under way is over and released
settle(w, outcome) ==
    release([w EXCEPT !.pending = FALSE, !.timerArmed = FALSE,
                      !.listening = FALSE, !.outcome = outcome], w)

\* throw new Error('Request Timeout / Aborted')
TimeoutOrAborted == [name |-> "Error", message |-> "Request Timeout / Aborted"]

\* variant: every error but an abort is retried while retries are left
fetchJsonCatch_RetriesAnyError(w0, e) ==
    LET w == [w0 EXCEPT !.ended = e]
    IN IF e.name = "ok" THEN settle(w, [name |-> "ok", message |-> ""])
       ELSE IF e.name = "AbortError" \/ e.name = "TimeoutError"
       THEN settle(w, TimeoutOrAborted)
       ELSE IF w.retries > 0
       THEN IF w.hasSignal /\ w.signalAborted
            THEN settle(w, TimeoutOrAborted)
            ELSE release(beginAttempt([w EXCEPT !.retries = @ - 1]), w)
       ELSE settle(w, e)

\* the try, catch and finally blocks of fetchJson once the attempt ended with e
fetchJsonCatch(w0, e) ==
    LET w == [w0 EXCEPT !.ended = e]
    IN IF e.name = "ok" THEN settle(w, [name |-> "ok", message |-> ""])
       ELSE IF e.name = "AbortError" \/ e.name = "TimeoutError"
       THEN settle(w, TimeoutOrAborted)
       ELSE IF w.retries > 0 /\ (e.message = "Failed to fetch" \/ e.name = "TypeError")
       THEN IF w.hasSignal /\ w.signalAborted
            THEN settle(w, TimeoutOrAborted)
            ELSE release(beginAttempt([w EXCEPT !.retries = @ - 1]), w)
       ELSE settle(w, e)

\* fetchJson(url, signal, timeoutMs, retries) is called
fetchJsonCalled ==
    /\ wrapper = None
    /\ \E retries \in 0 .. MaxRetries, hasSignal \in BOOLEAN, signalAborted \in BOOLEAN :
          /\ signalAborted => hasSignal
          /\ wrapper' = beginAttempt(
                [asked |-> retries, ended |-> None,
                 retries |-> retries, hasSignal |-> hasSignal,
                 signalAborted |-> signalAborted, pending |-> FALSE,
                 aborted |-> FALSE, cause |-> "none", timerArmed |-> FALSE,
                 listening |-> FALSE, timers |-> 0, listeners |-> 0,
                 attempts |-> 0, outcome |-> None])
    /\ UNCHANGED <<queried, controllerVars, normalizerVars, transportVars, streak>>

\* the caller aborts its signal: onAbort runs if it is attached
callerAborts ==
    /\ wrapper # None
    /\ wrapper.hasSignal
    /\ ~wrapper.signalAborted
    /\ wrapper' = [wrapper EXCEPT
                      !.signalAborted = TRUE,
                      !.aborted = @ \/ wrapper.listening,
                      !.cause = IF wrapper.listening /\ ~wrapper.aborted
                                THEN "caller" ELSE @]
    /\ UNCHANGED <<queried, controllerVars, normalizerVars, transportVars, streak>>

\* the timeout of the attempt under way fires: () => controller.abort()
timeoutFires ==
    /\ wrapper # None
    /\ wrapper.timerArmed
    /\ wrapper' = [wrapper EXCEPT
                      !.timerArmed = FALSE,
                      !.timers = @ - 1,
                      !.aborted = TRUE,
                      !.cause = IF wrapper.aborted THEN @ ELSE "timeout"]
    /\ UNCHANGED <<queried, controllerVars, normalizerVars, transportVars, streak>>

\* the attempt under way ends: with an AbortError when its controller was
\* aborted, with one of AttemptResults otherwise
attemptEnds ==
    /\ wrapper # None
    /\ wrapper.pending
    /\ \E e \in AttemptResults \cup {AbortError} :
          /\ wrapper.aborted <=> e = AbortError
          /\ wrapper' = fetchJsonCatch(wrapper, e)
    /\ UNCHANGED <<queried, controllerVars, normalizerVars, transportVars, streak>>

\* the caller has seen the outcome; the next call can be made
callReturns ==
    /\ wrapper # None
    /\ ~wrapper.pending
    /\ wrapper' = None
    /\ UNCHANGED <<queried, controllerVars, normalizerVars, transportVars, streak>>

NextWrapper ==
    \/ fetchJsonCalled
    \/ callerAborts
    \/ timeoutFires
    \/ attemptEnds
    \/ callReturns

SpecWrapper == Init /\ [][NextWrapper]_vars

(***************************************************************************)
(* The controller as the application drives it (App.tsx): its              *)
(* configuration effect calls setConfig and then start() in one task, or   *)
(* stop() when the live data source is switched off.                       *)
(***************************************************************************)
configurationEffect ==
    \E provider \in ProviderArgs, cfg \in ConfigArgs :
        LET c == Fields
            changed == Changed(c, cfg[1], cfg[2], cfg[3])
            c1 == startBody(setConfigBody(c, provider, cfg[1], cfg[2], cfg[3]))
        IN /\ changed => sessionId < MaxSession
           /\ Pending(c1) <= MaxPending
           /\ Commit(c1)
           /\ onLine' = onLine
           /\ ev' = [op |-> "configure", preState |-> state,
                     afterStop |-> FALSE, captured |-> -1,
                     provider |-> provider]
           /\ UNCHANGED functionVars

NextApp ==
    \/ configurationEffect
    \/ stop
    \/ timerFires
    \/ fetchResolves
    \/ fetchRejects
    \/ connectivityChanges

SpecApp == Init /\ [][NextApp]_vars

(***************************************************************************)
(* The controller with a consumer that may repeat a call of setConfig:     *)
(* again records that the task before was a call of setConfig with the     *)
(* same four arguments.                                                    *)
(***************************************************************************)
RepeatProviders == {"AIRPLANES_LIVE", "UNLISTED"}

setConfigRepeatable ==
    \E provider \in RepeatProviders, cfg \in ConfigArgs :
        LET e == Event("setConfig", [sid |-> -1, provider |-> provider])
        IN setConfigCall(provider, cfg,
                [op |-> e.op, preState |-> e.preState,
                 afterStop |-> e.afterStop, captured |-> e.captured,
                 provider |-> e.provider,
                 again |-> (ev.op = "setConfig" /\ ev.provider = provider
                            /\ Config = cfg)])

NextRepeat ==
    \/ setConfigRepeatable
    \/ start
    \/ stop
    \/ timerFires
    \/ fetchResolves
    \/ fetchRejects
    \/ connectivityChanges

SpecRepeat == Init /\ [][NextRepeat]_vars

(***************************************************************************)
(* The controller from its constructor on, with a consumer that registers  *)
(* its callbacks at any time, or never.                                    *)
(***************************************************************************)
InitConstructed ==
    /\ constructor
    /\ updateCallback = FALSE
    /\ logCallback = FALSE
    /\ rawData = <<>>
    /\ targets = None
    /\ InitAdapters
    /\ InitTransport

\* onUpdate(cb)
onUpdate ==
    /\ Commit([Fields EXCEPT !.updateCallback = TRUE])
    /\ onLine' = onLine
    /\ ev' = Event("onUpdate", NoItem)
    /\ UNCHANGED functionVars

\* onLog(cb)
onLog ==
    /\ Commit([Fields EXCEPT !.logCallback = TRUE])
    /\ onLine' = onLine
    /\ ev' = Event("onLog", NoItem)
    /\ UNCHANGED functionVars

NextCallbacks ==
    \/ onUpdate
    \/ onLog
    \/ setConfigProvider
    \/ start
    \/ stop
    \/ timerFires
    \/ fetchResolves
    \/ fetchRejects
    \/ connectivityChanges

SpecCallbacks == InitConstructed /\ [][NextCallbacks]_vars

(***************************************************************************)
(* Vocabulary of the properties                                            *)
(***************************************************************************)

HasLevel(ls, level) == \E i \in DOMAIN ls : ls[i].level = level

\* armed timeouts whose callback would pass the staleness check
LiveTimers ==
    (IF timer # None /\ timer.sid = sessionId THEN 1 ELSE 0)
    + CopiesIn([sid |-> sessionId], strayTimers)

RECURSIVE CopiesOver(_, _)
CopiesOver(items, b) ==
    IF items = {} THEN 0
    ELSE LET x == CHOOSE y \in items : TRUE
         IN CopiesIn(x, b) + CopiesOver(items \ {x}, b)

\* unsettled, unaborted requests whose continuation would pass the staleness check
LiveFetches ==
    (IF abortController # None /\ abortController.sid = sessionId
        /\ ~abortController.aborted THEN 1 ELSE 0)
    + CopiesOver({f \in BagToSet(strayFetches) : f.sid = sessionId /\ ~f.aborted},
                 strayFetches)

\* loop iterations pending or in flight that are valid for the current token
LiveCount == LiveTimers + LiveFetches

PendingCount == Pending(Fields)

ActiveProvider == PROVIDER_ORDER[currentProviderIndex + 1]

(***************************************************************************)
(* C1.  A response whose iteration captured a token other than the current *)
(* one is never passed to the snapshot callback: every snapshot delivered  *)
(* carries the current token, and a resolved request of another session    *)
(* delivers nothing.                                                       *)
(***************************************************************************)
C1_NoStaleSnapshot ==
    /\ delivered # None => delivered.session = sessionId
    /\ (ev.op = "resolve" /\ ev.captured # sessionId) => delivered = None

\* a request of a superseded session resolved, and was dropped
C1_Witness ==
    /\ ev.op = "resolve"
    /\ ev.captured # sessionId
    /\ delivered = None

(***************************************************************************)
(* C2.  At most one iteration valid for the current token is pending or in *)
(* flight: armed timeouts plus unaborted requests that would pass the      *)
(* staleness check never number more than one.                             *)
(***************************************************************************)
C2_AtMostOneLive == LiveCount <= 1

(***************************************************************************)
(* C3.  After stop() directly followed by start(), only the iteration      *)
(* begun by start() is pending or in flight for the current token.         *)
(***************************************************************************)
C3_StopStartNoOverlap == ev.afterStop => LiveCount <= 1

(***************************************************************************)
(* C4.  A counted (non-cancelled, non-stale) failure moves the cursor by   *)
(* exactly one position, wrapping, and zeroes the counter when it is the   *)
(* second consecutive failure of a request issued to the provider the      *)
(* cursor points at; otherwise (a single failure) the cursor stays.        *)
(***************************************************************************)
C4_RotateAfterTwo ==
    [][(ev'.op = "reject" /\ HasLog(logs', "Scan Failed")) =>
        IF lastFailedProvider = ActiveProvider /\ ev'.provider = ActiveProvider
        THEN /\ currentProviderIndex' = (currentProviderIndex + 1) % Len(PROVIDER_ORDER)
             /\ failures' = 0
        ELSE currentProviderIndex' = currentProviderIndex]_vars

(***************************************************************************)
(* C5.  Whenever the machine state is not IDLE, a timeout or a request     *)
(* valid for the current token is pending, so another iteration will run.  *)
(***************************************************************************)
C5_LoopAlive == state # "IDLE" => LiveCount >= 1

(***************************************************************************)
(* C6.  stop() leaves the state IDLE with the controller's timeout         *)
(* cancelled and its request aborted, and changes nothing when already     *)
(* IDLE; from IDLE, until start() is called, the state stays IDLE, no      *)
(* snapshot is delivered, no request is issued and no timeout is armed.    *)
(***************************************************************************)
C6_StopHalts ==
    [][/\ ev'.op = "stop" =>
            /\ state' = "IDLE"
            /\ timer' = None
            /\ abortController' = None
            /\ state = "IDLE" =>
                /\ UNCHANGED <<failures, currentProviderIndex, lat, lon, rangeKm,
                               sessionId, strayTimers, strayFetches>>
                /\ logs' = <<>>
       /\ (state = "IDLE" /\ ev'.op # "start") =>
            /\ state' = "IDLE"
            /\ delivered' = None
            /\ requested' = None
            /\ armed' = None]_vars

(***************************************************************************)
(* C7.  start() in state SCANNING changes nothing and logs nothing.  In    *)
(* any other state it zeroes the failure counter, keeps the token and the  *)
(* cursor, and begins exactly one iteration under the current token: one   *)
(* more item is pending, it is a request (state SCANNING) when the network *)
(* is reachable and the 5000 ms retry (state FAULT) when it is not.        *)
(***************************************************************************)
C7_Start ==
    [][ev'.op = "start" =>
        IF state = "SCANNING"
        THEN /\ UNCHANGED <<state, failures, currentProviderIndex, lat, lon, rangeKm,
                            sessionId, timer, abortController, strayTimers, strayFetches>>
             /\ logs' = <<>>
             /\ delivered' = None
             /\ armed' = None
             /\ requested' = None
        ELSE /\ failures' = 0
             /\ UNCHANGED <<sessionId, currentProviderIndex, lat, lon, rangeKm>>
             /\ PendingCount' = PendingCount + 1
             /\ LiveCount' = LiveCount + 1
             /\ delivered' = None
             /\ IF onLine
                THEN /\ state' = "SCANNING"
                     /\ requested' # None
                     /\ requested'.sid = sessionId
                     /\ armed' = None
                ELSE /\ state' = "FAULT"
                     /\ armed' = [delay |-> OfflineRetryMs, sid |-> sessionId]
                     /\ requested' = None]_vars

\* start() was called in FAULT with the network back, and issued a request
C7_Witness ==
    /\ ev.op = "start"
    /\ ev.preState = "FAULT"
    /\ state = "SCANNING"
    /\ failures = 0
    /\ requested # None

(***************************************************************************)
(* C8.  setConfig that changes lat, lon or rangeKm in state SCANNING       *)
(* raises the token by one, cancels the controller's timeout, aborts its   *)
(* request, and begins one iteration under the new token with the new      *)
(* position and range; nothing of the old session stays valid.             *)
(***************************************************************************)
C8_ReconfigureRestarts ==
    [][(ev'.op = "setConfig" /\ Config' # Config /\ state = "SCANNING") =>
        /\ sessionId' = sessionId + 1
        /\ strayTimers' = strayTimers
        /\ timer' # None => (timer'.sid = sessionId' /\ armed' # None)
        /\ abortController # None =>
             LET a == [abortController EXCEPT !.aborted = TRUE]
             IN CopiesIn(a, strayFetches') = CopiesIn(a, strayFetches) + 1
        /\ LiveCount' = 1
        /\ IF onLine
           THEN /\ requested' # None
                /\ requested'.provider = ActiveProvider'
                /\ <<requested'.lat, requested'.lon, requested'.rangeKm>>
                       = <<lat', lon', rangeKm'>>
                /\ requested'.sid = sessionId'
                /\ abortController' = [sid |-> sessionId', provider |-> ActiveProvider',
                                       aborted |-> FALSE]
                /\ timer' = None
           ELSE /\ armed' = [delay |-> OfflineRetryMs, sid |-> sessionId']
                /\ timer' = [sid |-> sessionId']
                /\ requested' = None
                /\ abortController' = None]_vars

\* a reconfiguration in SCANNING aborted the request in flight and issued a new one
C8_Witness ==
    /\ ev.op = "setConfig"
    /\ ev.preState = "SCANNING"
    /\ HasLog(logs, "Configuration Updated")
    /\ requested # None
    /\ requested.sid = sessionId
    /\ \E f \in BagToSet(strayFetches) : f.aborted /\ f.sid = sessionId - 1

(***************************************************************************)
(* C9.  setConfig with the current lat, lon and rangeKm keeps the token,   *)
(* the pending timeout and the request in flight, begins no iteration and  *)
(* logs nothing; only the cursor may change, and a request is always       *)
(* issued to the provider the cursor points at when it is issued.          *)
(***************************************************************************)
C9_ProviderOnlyKeepsSession ==
    [][/\ (ev'.op = "setConfig" /\ Config' = Config) =>
            /\ UNCHANGED <<sessionId, timer, abortController, strayTimers,
                           strayFetches, state, failures>>
            /\ logs' = <<>>
            /\ armed' = None
            /\ requested' = None
            /\ delivered' = None
       /\ requested' # None => requested'.provider = ActiveProvider']_vars

\* a provider-only setConfig moved the cursor while a request to another
\* provider stayed in flight
C9_Witness ==
    /\ ev.op = "setConfig"
    /\ ~HasLog(logs, "Configuration Updated")
    /\ abortController # None
    /\ ~abortController.aborted
    /\ abortController.provider # ActiveProvider

(***************************************************************************)
(* C10.  The session token never decreases; a setConfig that changes lat,  *)
(* lon or rangeKm raises it by exactly one; stop() and loop iterations     *)
(* (timeouts firing, requests resolving or rejecting) leave it unchanged.  *)
(***************************************************************************)
C10_TokenMonotonic ==
    [][/\ sessionId' >= sessionId
       /\ (ev'.op = "setConfig" /\ Config' # Config) => sessionId' = sessionId + 1
       /\ ev'.op \in {"stop", "timer", "resolve", "reject"} => sessionId' = sessionId]_vars

\* stop() ended a loop running under a token that had been raised
C10_Witness ==
    /\ ev.op = "stop"
    /\ ev.preState # "IDLE"
    /\ sessionId > 0
    /\ state = "IDLE"

(***************************************************************************)
(* C11.  A step whose iteration finds the network unreachable issues no    *)
(* request, leaves the state FAULT, arms the 5000 ms retry under the token *)
(* the iteration ran under, and rotates nothing: the iteration changes     *)
(* neither the cursor nor the failure counter (start() has zeroed the      *)
(* counter, setConfig has set the cursor, before their iteration begins).  *)
(***************************************************************************)
C11_OfflineBacksOff ==
    [][HasLog(logs', "Network Link Offline") =>
        /\ requested' = None
        /\ delivered' = None
        /\ state' = "FAULT"
        /\ armed' = [delay |-> 5000, sid |-> sessionId']
        /\ timer' = [sid |-> sessionId']
        /\ ~HasLog(logs', "Rerouting Data Link")
        /\ ev'.op = "timer" =>
                UNCHANGED <<sessionId, currentProviderIndex, failures>>
        /\ ev'.op = "start" =>
                /\ UNCHANGED <<sessionId, currentProviderIndex>>
                /\ failures' = 0
        /\ ev'.op = "setConfig" => failures' = failures]_vars

\* a retry found the network unreachable while one failure was counted
C11_Witness ==
    /\ ev.op = "timer"
    /\ HasLog(logs, "Network Link Offline")
    /\ failures = 1
    /\ state = "FAULT"
    /\ armed # None

(***************************************************************************)
(* C12.  When a request of the current session has resolved, the next      *)
(* iteration is armed under the same token, after 15000 ms if rangeKm is   *)
(* greater than 300 and after 6000 ms otherwise (300 itself gives 6000).   *)
(***************************************************************************)
C12_PollInterval ==
    (ev.op = "resolve" /\ ev.captured = sessionId) =>
        /\ armed = [delay |-> IF rangeKm > 300 THEN 15000 ELSE 6000,
                    sid |-> sessionId]
        /\ timer = [sid |-> sessionId]

\* a request resolved with the range exactly at the threshold
C12_Witness ==
    /\ ev.op = "resolve"
    /\ ev.captured = sessionId
    /\ rangeKm = 300
    /\ armed # None
    /\ armed.delay = 6000

(***************************************************************************)
(* C13.  A counted (non-cancelled, non-stale) failure arms the retry under *)
(* the same token: after 3000 ms with the cursor unchanged while the       *)
(* counter stays below 2, after 1000 ms with the cursor advanced by one    *)
(* and the counter back at 0 when it reaches 2.                            *)
(***************************************************************************)
C13_RetryDelays ==
    [][(ev'.op = "reject" /\ HasLog(logs', "Scan Failed")) =>
        IF failures + 1 >= 2
        THEN /\ armed' = [delay |-> 1000, sid |-> sessionId]
             /\ currentProviderIndex' = (currentProviderIndex + 1) % Len(PROVIDER_ORDER)
             /\ failures' = 0
        ELSE /\ armed' = [delay |-> 3000, sid |-> sessionId]
             /\ currentProviderIndex' = currentProviderIndex
             /\ failures' = failures + 1]_vars

(***************************************************************************)
(* C14.  The rejection of a request whose signal was aborted (by stop() or *)
(* by a reconfiguration) logs nothing, leaves the failure counter and the  *)
(* cursor as they are, and arms no timeout.                                *)
(***************************************************************************)
C14_CancelIsSilent ==
    [][(ev'.op = "reject" /\ MicrotaskQueued) =>
        /\ logs' = <<>>
        /\ armed' = None
        /\ requested' = None
        /\ delivered' = None
        /\ UNCHANGED <<failures, currentProviderIndex, state, sessionId,
                       timer, strayTimers>>]_vars

\* stop() then start() under one token: the aborted request was rejected
\* while the request of the new loop was in flight
C14_Witness ==
    /\ ev.op = "reject"
    /\ sessionId = 0
    /\ logs = <<>>
    /\ state = "SCANNING"
    /\ failures = 0
    /\ abortController # None
    /\ strayFetches = EmptyBag

(***************************************************************************)
(* C15.  The failover rule rotates the cursor only when the two latest     *)
(* counted failures were both of requests issued to the provider the       *)
(* cursor points at, with no success in between.                           *)
(***************************************************************************)
C15_CountsCurrentProviderOnly ==
    [][(ev'.op = "reject" /\ HasLog(logs', "Rerouting Data Link")) =>
        /\ ev'.provider = ActiveProvider
        /\ lastFailedProvider = ActiveProvider]_vars

(***************************************************************************)
(* C16.  The cursor is always an index of the three-entry provider         *)
(* sequence.                                                               *)
(***************************************************************************)
C16_CursorInRange ==
    /\ Len(PROVIDER_ORDER) = 3
    /\ currentProviderIndex \in 0 .. 2

\* the failover rotated from the last provider back to the first
C16_Witness ==
    /\ ev.op = "reject"
    /\ HasLog(logs, "Rerouting Data Link")
    /\ ev.provider = "OPENSKY"
    /\ currentProviderIndex = 0

(***************************************************************************)
(* C17.  When a request of the current session has resolved, the failure   *)
(* counter is 0, the state is SCANNING, one log entry was emitted, one     *)
(* snapshot was delivered (with the records received, none included) after *)
(* that entry and before any timeout was armed, it carries the state       *)
(* SCANNING, and the next iteration is armed.                              *)
(***************************************************************************)
C17_SuccessHandling ==
    (ev.op = "resolve" /\ ev.captured = sessionId) =>
        /\ failures = 0
        /\ state = "SCANNING"
        /\ Len(logs) = 1
        /\ logs[1].level \in {"SUCCESS", "INFO"}
        /\ delivered # None
        /\ delivered.targets \in TargetCounts
        /\ (delivered.targets = 0) = (logs[1].message = "Scan Complete - Sector Clear")
        /\ delivered.state = "SCANNING"
        /\ delivered.logged = 1
        /\ ~delivered.scheduled
        /\ armed # None
        /\ timer # None

\* a response with no aircraft was delivered as an empty snapshot
C17_Witness ==
    /\ ev.op = "resolve"
    /\ ev.captured = sessionId
    /\ delivered # None
    /\ delivered.targets = 0
    /\ HasLog(logs, "Scan Complete - Sector Clear")
    /\ failures = 0
    /\ armed # None

\* response r lacks what a request to provider expects
Malformed(r, provider) ==
    \/ ~r.ok
    \/ ~r.json
    \/ provider \in {"ADSB_LOL", "AIRPLANES_LIVE"} /\ r.ac = Absent
    \/ provider = "OPENSKY" /\ r.states = Absent

(***************************************************************************)
(* C18.  A request of the current session that completes with a non-2xx    *)
(* response, a body that is not JSON, or a 2xx JSON body without the field *)
(* its provider uses ('ac', 'states') is counted as a failure: 'Scan       *)
(* Failed' is logged, the counter goes up by one (and back to 0 with a     *)
(* rotation when that reaches 2), and no snapshot is delivered.            *)
(***************************************************************************)
C18_MalformedIsFailure ==
    [][(/\ ev'.op = "complete"
        /\ ev'.captured = sessionId
        /\ Malformed(ev'.response, ev'.provider)) =>
        /\ delivered' = None
        /\ HasLog(logs', "Scan Failed")
        /\ IF failures + 1 >= 2
           THEN failures' = 0 /\ HasLog(logs', "Rerouting Data Link")
           ELSE failures' = failures + 1]_vars

(***************************************************************************)
(* C19.  When a request of the current session completes and its snapshot  *)
(* is passed to onUpdate, then whatever the callback does the next         *)
(* iteration is armed with the success-path delay under the same token,    *)
(* the failure counter is 0 and the cursor has not moved.                  *)
(***************************************************************************)
C19_ConsumerCannotDisturb ==
    [][(ev'.op = "complete" /\ delivered' # None) =>
        /\ armed' = [delay |-> IF rangeKm > 300 THEN 15000 ELSE 6000,
                     sid |-> sessionId]
        /\ failures' = 0
        /\ currentProviderIndex' = currentProviderIndex]_vars

\* x is a number, or text that is a numeral
Numeric(x) == x.t = "number" \/ x = Str(<<"5", "1">>)

NumericPosition(item) == Numeric(item.lat) /\ Numeric(item.lon)

(***************************************************************************)
(* C20.  The list processTargets returns holds exactly the records whose   *)
(* lat and lon are both numeric (not missing, not null, not non-numeric),  *)
(* one target each, in the order of the input.                             *)
(***************************************************************************)
C20_KeepsExactlyNumeric ==
    targets # None =>
        LET kept == SelectSeq(rawData, NumericPosition)
        IN /\ Len(targets.list) = Len(kept)
           /\ \A i \in DOMAIN kept : targets.list[i].id = toUpperCase(kept[i].hex)

\* the characters a text begins with, at most n of them
Prefix(x, n) == SubSeq(x, 1, IF Len(x) < n THEN Len(x) ELSE n)

\* the upper-cased text of the type field of the report handed in
ReportedType == toUpperCase(StringOrEmpty(Field(rawData[1], "t")))

(***************************************************************************)
(* C23: the radar cross-section of a target follows from the upper-cased   *)
(* type code of its report: 50 when it begins with B7 or A3, else 2 when   *)
(* it begins with C1 or P2, else 10 when it begins with F or M, else 5,    *)
(* the empty type code included.                                           *)
(***************************************************************************)
C23_RcsByTypePrefix ==
    (targets # None /\ targets.list # <<>>) =>
        LET two == Prefix(ReportedType, 2)
            one == Prefix(ReportedType, 1)
            rcs == targets.list[1].rcs
        IN rcs = IF two \in {<<"B", "7">>, <<"A", "3">>} THEN 50
                 ELSE IF two \in {<<"C", "1">>, <<"P", "2">>} THEN 2
                 ELSE IF one \in {<<"F">>, <<"M">>} THEN 10
                 ELSE 5

\* a report typed b738, in lower case, became a target of cross-section 50
C23_Witness ==
    /\ targets # None
    /\ targets.list # <<>>
    /\ rawData[1].t = Str(<<"b", "7", "3", "8">>)
    /\ targets.list[1].rcs = 50

\* a - b is at most tol either way
Near(a, b, tol) == a - b \in (0 - tol) .. tol

\* the report handed in, at (51.01, 0.02), 35000 ft, 450 kt, heading 90
\* degrees, has been normalized with the controller at (51, 0)
WorkedExample ==
    /\ targets # None
    /\ targets.origin = <<51, 0>>
    /\ rawData[1].lat = Num(5101)
    /\ rawData[1].lon = Num(2)
    /\ rawData[1].alt_baro = Num(3500000)
    /\ rawData[1].gs = Num(45000)
    /\ rawData[1].track = Num(9000)

\* all of the worked example but x
WorkedExampleRest ==
    LET tg == targets.list[1]
    IN /\ Len(targets.list) = 1
       /\ Near(tg.position.y, 110500, 100)
       /\ Near(tg.altitude, 1066800, 100)
       /\ Near(tg.velocity.vx, 23150, 10)
       /\ Near(tg.velocity.vy, 0, 10)

(***************************************************************************)
(* C24, as amended: with the origin at (51.0, 0.0), a report at            *)
(* (51.01, 0.02), 35000 ft, 450 kt, heading 90 degrees becomes a target at *)
(* x = 1401 m and y = 1105 m to within a metre, at altitude 10668 m, with  *)
(* velocity (231.5, 0) m/s.                                                *)
(***************************************************************************)
C24_WorkedExample ==
    WorkedExample =>
        /\ WorkedExampleRest
        /\ Near(targets.list[1].position.x, 140100, 100)

C24_Witness ==
    /\ WorkedExample
    /\ targets.list[1].position.x = 140106
    /\ targets.list[1].position.y = 110574

\* C24 as stated: x = 1392 m to within a metre
C24_AsStated ==
    WorkedExample =>
        /\ WorkedExampleRest
        /\ Near(targets.list[1].position.x, 139200, 100)

(***************************************************************************)
(* C21: every request asks for a range within its provider's maximum: the  *)
(* controller's radial queries for 1 to 250 nautical miles and its         *)
(* bounding box for at most 500 km, fetchAdsbLol for at most 100 nautical  *)
(* miles, fetchAirplanesLive for at most 80, and fetchOpenSky for at most  *)
(* the 500 km of the bounding-box provider.                                *)
(***************************************************************************)
C21_RangeClamped ==
    /\ requested # None =>
         IF requested.provider = "OPENSKY"
         THEN requested.range <= 500
         ELSE requested.range \in 1 .. 250
    /\ queried # None =>
         /\ queried.by = "fetchAdsbLol" => queried.range <= 100
         /\ queried.by = "fetchAirplanesLive" => queried.range <= 80
         /\ queried.by = "fetchOpenSky" => queried.range <= 500

\* the text "Mixed Content Blocked" is what was thrown
MixedContentReported == thrown.message = "Mixed Content Blocked"

\* the request that failed went from a page loaded over https to an http: URL
SecureToInsecure ==
    /\ protocol = "https:"
    /\ Prefix(thrown.url, 5) = <<"h", "t", "t", "p", ":">>

FetchAttemptHandled ==
    /\ ev.op \in {"resolve", "reject"}
    /\ (delivered # None \/ HasLog(logs, "Scan Failed"))

(***************************************************************************)
(* C25: the state FAULT means that the latest iteration found the network  *)
(* unreachable and attempted no fetch: an iteration that attempted a fetch *)
(* and handled its success or failure does not leave the state FAULT.      *)
(***************************************************************************)
C25_FaultMeansNoFetch == FetchAttemptHandled => state # "FAULT"

\* the provider the i-th failure of a streak begun at cursor from is due to:
\* two failures each, in the order of the sequence
DueProvider(from, i) == PROVIDER_ORDER[((from + (i - 1) \div 2) % 3) + 1]

(***************************************************************************)
(* C26: with the network reachable, no call of the consumer and every      *)
(* request failing, from a failure counter of 0 each provider is tried     *)
(* exactly twice in a row before the cursor moves on, so that all three    *)
(* have been tried within five requests and the cursor is back at its      *)
(* starting provider after exactly six failures.                           *)
(***************************************************************************)
C26_FailoverDeterministic ==
    streak # None =>
        LET k == Len(streak.failed)
        IN /\ \A i \in 1 .. k : streak.failed[i] = DueProvider(streak.from, i)
           /\ currentProviderIndex = (streak.from + k \div 2) % 3
           /\ failures = k % 2

(***************************************************************************)
(* C27: the session token is raised on every explicit restart: a start()   *)
(* that directly follows a stop() which stopped a loop begins its loop     *)
(* under a token strictly greater than the token at the time of the stop.  *)
(***************************************************************************)
C27_RestartRaisesToken ==
    [][(ev'.op = "start" /\ ev.op = "stop" /\ ev.preState # "IDLE")
          => sessionId' > sessionId]_vars

\* the provider the last call of setConfig named is one of the sequence
NamedListed == \E i \in DOMAIN PROVIDER_ORDER : PROVIDER_ORDER[i] = ev.provider

(***************************************************************************)
(* C28, as amended: setConfig puts the cursor on the provider it is given  *)
(* whenever that provider is in the sequence, whether or not position or   *)
(* range change and wherever failover had left the cursor; given a         *)
(* provider that is not in the sequence it puts the cursor on the first    *)
(* provider.                                                               *)
(***************************************************************************)
C28_CursorFollowsSetConfig ==
    ev.op = "setConfig" =>
        IF NamedListed
        THEN PROVIDER_ORDER[currentProviderIndex + 1] = ev.provider
        ELSE currentProviderIndex = 0

\* a failure of AIRPLANES_LIVE had been counted when setConfig was given a
\* provider outside the sequence, without a change of position or range:
\* the cursor is on the first provider
C28_Witness ==
    /\ ev.op = "setConfig"
    /\ ~NamedListed
    /\ ~HasLog(logs, "Configuration Updated")
    /\ failures = 1
    /\ lastFailedProvider = "AIRPLANES_LIVE"
    /\ currentProviderIndex = 0

\* C28 as stated: given a provider that is not in the sequence, setConfig
\* leaves the cursor where it was
C28_AsStated ==
    [][ev'.op = "setConfig" =>
          IF \E i \in DOMAIN PROVIDER_ORDER : PROVIDER_ORDER[i] = ev'.provider
          THEN PROVIDER_ORDER[currentProviderIndex' + 1] = ev'.provider
          ELSE currentProviderIndex' = currentProviderIndex]_vars

(***************************************************************************)
(* C29: the state is never RECOVERY: it is always IDLE, SCANNING or FAULT, *)
(* and it is IDLE after construction.                                      *)
(***************************************************************************)
C29_NeverRecovery ==
    /\ state \in {"IDLE", "SCANNING", "FAULT"}
    /\ ev.op = "init" => state = "IDLE"

\* a failed request is being retried while the state is FAULT: the case the
\* name RECOVERY was declared for
C29_Witness ==
    /\ state = "FAULT"
    /\ ev.op = "reject"
    /\ HasLog(logs, "Scan Failed")
    /\ armed # None

\* the call of fetchJson has rejected
Rejected == wrapper # None /\ ~wrapper.pending /\ wrapper.outcome.name # "ok"

\* what fetchJson rejects with when its own timeout aborted the request
TimeoutReport == fetchJsonCatch(wrapper, AbortError).outcome

(***************************************************************************)
(* C30: a call of fetchJson that ended because the caller aborted its      *)
(* signal rejects with an error that differs, in name or message, from the *)
(* error a call rejects with when its timeout ran out.                     *)
(***************************************************************************)
C30_CancellationDistinct ==
    (Rejected /\ wrapper.cause = "caller") => wrapper.outcome # TimeoutReport

\* the step is a retry: fetchJson calls fetch() again within the same call
Retried == wrapper # None /\ wrapper' # None /\ wrapper'.attempts > wrapper.attempts

(***************************************************************************)
(* C31: a call of fetchJson makes at most retries + 1 fetch attempts; it   *)
(* retries only after a network error ('Failed to fetch' or a TypeError),  *)
(* never after an HTTP status that is not ok, never after its timeout ran  *)
(* out and never once the caller's signal is aborted.                      *)
(***************************************************************************)
C31_BoundedRetries ==
    [][/\ wrapper' # None => wrapper'.attempts <= wrapper'.asked + 1
       /\ Retried =>
            /\ wrapper'.ended.name = "TypeError" \/ wrapper'.ended.message = "Failed to fetch"
            /\ wrapper.cause # "timeout"
            /\ ~wrapper.signalAborted]_vars

\* with retries = 1 the second attempt failed as the first did, and the call
\* rejected with that network error
C31_Witness ==
    /\ wrapper # None
    /\ wrapper.asked = 1
    /\ wrapper.attempts = 2
    /\ ~wrapper.pending
    /\ wrapper.outcome = [name |-> "TypeError", message |-> "Failed to fetch"]

(***************************************************************************)
(* C37: fetchJson releases what each attempt created, on success, on a     *)
(* thrown error and on the hand-off to a retry: only the attempt under way *)
(* has a timeout armed or a listener on the caller's signal, and once the  *)
(* call has settled no timeout and no listener of fetchJson remains.       *)
(***************************************************************************)
C37_ReleasesResources ==
    wrapper # None =>
        /\ wrapper.timers = IF wrapper.timerArmed THEN 1 ELSE 0
        /\ wrapper.listeners = IF wrapper.listening THEN 1 ELSE 0
        /\ ~wrapper.pending => (wrapper.timers = 0 /\ wrapper.listeners = 0)

\* a call with a signal settled after a retry, its two timeouts cleared and
\* its two listeners removed
C37_Witness ==
    /\ wrapper # None
    /\ wrapper.hasSignal
    /\ ~wrapper.signalAborted
    /\ wrapper.attempts = 2
    /\ ~wrapper.pending
    /\ wrapper.timers = 0
    /\ wrapper.listeners = 0

\* the last task ran the success handling of scanLoop
Succeeded ==
    HasLog(logs, "Target Lock") \/ HasLog(logs, "Scan Complete - Sector Clear")

\* the last task rotated the provider cursor
Rotated == HasLog(logs, "Rerouting Data Link")

(***************************************************************************)
(* C32: between tasks the failure counter is 0 or 1, never 2 or more; it   *)
(* is 0 after a start() that found the controller in a state other than    *)
(* SCANNING, after a success and after a rotation.                         *)
(***************************************************************************)
C32_CounterZeroOrOne ==
    /\ failures \in {0, 1}
    /\ (ev.op = "start" /\ ev.preState # "SCANNING") => failures = 0
    /\ Succeeded => failures = 0
    /\ Rotated => failures = 0

(***************************************************************************)
(* C33: every snapshot passed to the update callback carries the machine   *)
(* state SCANNING, never IDLE or FAULT.                                    *)
(***************************************************************************)
C33_SnapshotIsScanning ==
    delivered # None => delivered.state = "SCANNING"

\* a request has resolved and its snapshot, with aircraft in it, was passed on
C33_Witness ==
    /\ ev.op = "resolve"
    /\ delivered # None
    /\ delivered.targets > 0
    /\ delivered.state = "SCANNING"

(***************************************************************************)
(* C34: the provider named in a snapshot is the provider its iteration     *)
(* issued the request to, and it is the provider the cursor points at when *)
(* the snapshot is emitted, also when setConfig was called with another    *)
(* provider while the request was in flight.                               *)
(***************************************************************************)
C34_SnapshotNamesCurrentProvider ==
    delivered # None => delivered.provider = ActiveProvider

\* the task was the second of two calls of setConfig in a row with the same
\* provider, lat, lon and rangeKm
SecondIdenticalSetConfig == ev.op = "setConfig" /\ ev.again

(***************************************************************************)
(* C35: setConfig is idempotent: the second of two calls in a row with the *)
(* same arguments leaves token, cursor, failure counter, machine state,    *)
(* configuration, timers and requests as the first left them, logs nothing *)
(* and starts no iteration.                                                *)
(***************************************************************************)
C35_SetConfigIdempotent ==
    [][SecondIdenticalSetConfig' =>
            /\ UNCHANGED <<state, failures, currentProviderIndex, lat, lon,
                           rangeKm, sessionId, timer, abortController,
                           strayTimers, strayFetches>>
            /\ logs' = <<>>
            /\ armed' = None
            /\ requested' = None]_vars

\* the second of two identical calls was made on a scanning controller whose
\* request, issued by the restart of the first call, is in flight
C35_Witness ==
    /\ SecondIdenticalSetConfig
    /\ state = "SCANNING"
    /\ sessionId > 0
    /\ abortController # None
    /\ ~abortController.aborted
    /\ abortController.sid = sessionId

(***************************************************************************)
(* C36: after the application's configuration effect has called setConfig  *)
(* and then start(), exactly one loop iteration valid for the current      *)
(* token is pending or in flight, whatever state the controller was in.    *)
(***************************************************************************)
C36_OneLiveAfterReconfiguration ==
    ev.op = "configure" => LiveCount = 1

\* the fields with both callbacks registered
Registered(c) == [c EXCEPT !.updateCallback = TRUE, !.logCallback = TRUE]

\* what a task leaves behind apart from the calls of the callbacks: the
\* controller's fields, its timers and requests, and the events it produced
Core(c) ==
    <<c.state, c.failures, c.currentProviderIndex, c.lat, c.lon, c.rangeKm,
      c.sessionId, c.timer, c.abortController, c.strayTimers, c.strayFetches,
      c.armed, c.requested, c.logs, c.delivered>>

CoreVars ==
    <<state, failures, currentProviderIndex, lat, lon, rangeKm,
      sessionId, timer, abortController, strayTimers, strayFetches,
      armed, requested, logs, delivered>>

\* a callback is handed the events of the running task only, and only if
\* it is registered; registering hands it nothing
Dropped ==
    /\ heard \in {<<>>, logs}
    /\ seen \in {None, delivered}
    /\ ~logCallback => heard = <<>>
    /\ ~updateCallback => seen = None
    /\ ev.op \in {"init", "onLog", "onUpdate"} => (heard = <<>> /\ seen = None)
    /\ ~HasLog(heard, "Radar Controller Initialized")

\* the step leaves behind what the same handler leaves behind when both
\* callbacks are registered
AsIfRegistered ==
    LET c == Registered(Fields)
    IN /\ ev'.op = "start" => CoreVars' = Core(startBody(c))
       /\ ev'.op = "stop" => CoreVars' = Core(stopBody(c))
       /\ ev'.op = "setConfig" =>
            \E cfg \in ConfigArgs :
                CoreVars' = Core(setConfigBody(c, ev'.provider, cfg[1], cfg[2], cfg[3]))
       /\ ev'.op = "timer" =>
            \E x \in ArmedTimers(Fields) :
                CoreVars' = Core(scanLoop(WithoutTimer(c, x), x.item.sid))
       /\ ev'.op = "resolve" =>
            \E x \in OpenFetches(Fields), n \in TargetCounts :
                CoreVars' = Core(scanLoopSuccess(WithoutFetch(c, x), x.item, n))
       /\ ev'.op = "reject" =>
            \E x \in OpenFetches(Fields) :
                CoreVars' = Core(scanLoopCatch(WithoutFetch(c, x), x.item, x.item.aborted))
       /\ ev'.op \in {"onLog", "onUpdate", "connectivity"} => CoreVars' = Core(c)

(***************************************************************************)
(* C38: events produced while no callback is registered are dropped: a     *)
(* callback is handed only events of tasks that run after its              *)
(* registration, never the constructor's entry, and whether callbacks are  *)
(* registered changes neither the controller's fields nor its timers and   *)
(* requests.                                                               *)
(***************************************************************************)
C38_DroppedNotBuffered ==
    [][Dropped' /\ AsIfRegistered]_vars

\* with a log callback registered and no update callback, a request has
\* resolved: the entry was handed on, the snapshot was dropped, and the next
\* iteration is scheduled all the same
C38_Witness ==
    /\ ev.op = "resolve"
    /\ logCallback
    /\ ~updateCallback
    /\ heard = logs
    /\ heard # <<>>
    /\ delivered # None
    /\ seen = None
    /\ timer # None
====
